---- MODULE Spec2Model ----
(***************************************************************************)
(* ntc-tesuto: interactive console for Tesuto emulations and devices.      *)
(* A state-machine model of src/ntc_tesuto.py.  Text is modelled as        *)
(* sequences of one-character strings; one action is one stretch of code   *)
(* between two blocking calls (input() or a remote call).                  *)
(***************************************************************************)
EXTENDS Integers, Sequences, FiniteSets, TLC

(***************************************************************************)
(* Bounds of the model.                                                    *)
(***************************************************************************)
\* longest line typed at a selection prompt
MaxLen == 3
\* rejected attempts counted at one selection prompt
MaxAttempts == 1

(***************************************************************************)
(* Text helpers: str methods and int() of Python.                          *)
(***************************************************************************)
DigitChars == <<"0", "1", "2", "3", "4", "5", "6", "7", "8", "9">>
UpperChars == <<"A", "B", "C", "D", "E", "F", "G", "H", "I", "J", "K", "L", "M",
                "N", "O", "P", "Q", "R", "S", "T", "U", "V", "W", "X", "Y", "Z">>
LowerChars == <<"a", "b", "c", "d", "e", "f", "g", "h", "i", "j", "k", "l", "m",
                "n", "o", "p", "q", "r", "s", "t", "u", "v", "w", "x", "y", "z">>
\* code-point order of the characters the model uses
CodeOrder == <<" ", "+", ",", "-">> \o DigitChars \o UpperChars \o LowerChars

Range(s) == {s[i] : i \in DOMAIN s}

IsDigit(c) == c \in Range(DigitChars)

DigitVal(c) == (CHOOSE i \in DOMAIN DigitChars : DigitChars[i] = c) - 1

Ord(c) == CHOOSE i \in DOMAIN CodeOrder : CodeOrder[i] = c

\* str.lower() on one character
LowerChar(c) ==
    IF c \in Range(UpperChars)
    THEN LowerChars[CHOOSE i \in DOMAIN UpperChars : UpperChars[i] = c]
    ELSE c

\* str.lower()
Lower(s) == [i \in DOMAIN s |-> LowerChar(s[i])]

\* str.strip(): leading and trailing whitespace removed
Strip(s) ==
    LET keep == {i \in DOMAIN s : s[i] # " "}
    IN IF keep = {} THEN <<>>
       ELSE LET lo == CHOOSE i \in keep : \A j \in keep : i <= j
                hi == CHOOSE i \in keep : \A j \in keep : j <= i
            IN SubSeq(s, lo, hi)

\* str.split(sep) with a one-character separator
RECURSIVE Split(_, _)
Split(s, sep) ==
    LET at == {i \in DOMAIN s : s[i] = sep}
    IN IF at = {} THEN <<s>>
       ELSE LET i == CHOOSE k \in at : \A j \in at : k <= j
            IN <<SubSeq(s, 1, i - 1)>> \o Split(SubSeq(s, i + 1, Len(s)), sep)

\* sub in s  (substring test of Python's "in" on str)
Contains(s, sub) ==
    \E i \in 1..(Len(s) + 1) :
        /\ i + Len(sub) - 1 <= Len(s)
        /\ SubSeq(s, i, i + Len(sub) - 1) = sub

\* value of a non-empty string of decimal digits
RECURSIVE DigitsValue(_)
DigitsValue(s) ==
    IF Len(s) = 0 THEN 0
    ELSE 10 * DigitsValue(SubSeq(s, 1, Len(s) - 1)) + DigitVal(s[Len(s)])

\* int(s): surrounding whitespace and one sign are accepted, then digits only;
\* ok = FALSE stands for ValueError
PyInt(s) ==
    LET t == Strip(s)
        signed == Len(t) > 0 /\ t[1] \in {"-", "+"}
        body == IF signed THEN SubSeq(t, 2, Len(t)) ELSE t
        good == Len(body) > 0 /\ \A i \in DOMAIN body : IsDigit(body[i])
        mag == IF good THEN DigitsValue(body) ELSE 0
    IN [ok |-> good, val |-> IF signed /\ t[1] = "-" THEN 0 - mag ELSE mag]

\* str(n) for an integer
RECURSIVE NatStr(_)
NatStr(n) ==
    IF n < 10 THEN <<DigitChars[n + 1]>>
    ELSE NatStr(n \div 10) \o <<DigitChars[(n % 10) + 1]>>

IntStr(n) == IF n < 0 THEN <<"-">> \o NatStr(0 - n) ELSE NatStr(n)

\* s < t in Python's str order
RECURSIVE StrLess(_, _)
StrLess(s, t) ==
    IF Len(t) = 0 THEN FALSE
    ELSE IF Len(s) = 0 THEN TRUE
    ELSE IF s[1] # t[1] THEN Ord(s[1]) < Ord(t[1])
    ELSE StrLess(Tail(s), Tail(t))

\* range(a, b) in place of range(a, b + 1)
RECURSIVE IntRangeExclusive(_, _)
IntRangeExclusive(a, b) ==
    IF a >= b THEN <<>> ELSE <<a>> \o IntRangeExclusive(a + 1, b)

\* range(a, b + 1) as a list
RECURSIVE IntRange(_, _)
IntRange(a, b) == IF a > b THEN <<>> ELSE <<a>> \o IntRange(a + 1, b)

(***************************************************************************)
(* The remote service's entities (tesuto objects: id, name, emulation_id). *)
(***************************************************************************)
Emulations ==
    { [id |-> "e1", name |-> <<"b">>],
      [id |-> "e2", name |-> <<"a">>],
      [id |-> "e3", name |-> <<"c">>] }

Device(id, emulation_id, name) ==
    [id |-> id, emulation_id |-> emulation_id, name |-> name]

\* the devices of each emulation, in the order the service stores them
DevicesOf(emulation_id) ==
    CASE emulation_id = "e1" ->
            << Device("d1", "e1", <<"c", "s", "r", "1">>),
               Device("d2", "e1", <<"v", "m", "x", "1">>),
               Device("d3", "e1", <<"c", "s", "r", "2">>) >>
      [] emulation_id = "e2" ->
            << Device("d4", "e2", <<"C", "S", "R", "1">>),
               Device("d5", "e2", <<"c", "s", "r", "1">>) >>
      [] OTHER -> <<>>

Reverse(list) == [i \in DOMAIN list |-> list[Len(list) + 1 - i]]

\* what tesuto.apis.Emulation.list() may return: any emulations, in any order
EmulationListings ==
    UNION { {l \in [1..n -> Emulations] : \A i, j \in 1..n : i # j => l[i] # l[j]}
            : n \in 0..Cardinality(Emulations) }

\* what tesuto.apis.EmulationDevice.list() may return for one emulation
DeviceListings(emulation_id) ==
    {DevicesOf(emulation_id), Reverse(DevicesOf(emulation_id))}

\* status codes of a list call; the payload of any other status is not
\* determined by this repository and is left out of the inputs
ListStatuses == {200, 401, 404}

\* status codes of an update (put) call
UpdateStatuses == {200, 401, 404, 500}

(***************************************************************************)
(* API._dispatch, lines 23-31: TRUE when it raises Exception.              *)
(***************************************************************************)
DispatchRaises(status_code) == status_code = 401 \/ status_code = 404

\* the listing kept in the order the service returned it
ServiceOrder(list) == list

(***************************************************************************)
(* API.get_emulations, line 40: list.sort(key=name), a stable sort.        *)
(***************************************************************************)
InsertByName(sorted, x) ==
    LET before == {i \in DOMAIN sorted : ~StrLess(x.name, sorted[i].name)}
        k == Cardinality(before)
    IN SubSeq(sorted, 1, k) \o <<x>> \o SubSeq(sorted, k + 1, Len(sorted))

RECURSIVE SortByName(_)
SortByName(list) ==
    IF list = <<>> THEN <<>>
    ELSE InsertByName(SortByName(SubSeq(list, 1, Len(list) - 1)), list[Len(list)])

(***************************************************************************)
(* get_user_selections, lines 168-202.                                     *)
(***************************************************************************)
\* lines 180-190, one segment: ok = FALSE is "raise InvalidChoice(segment)"
ParseSegment(segment) ==
    IF "-" \in Range(segment)
    THEN LET parts == Split(segment, "-")
             ints == [i \in DOMAIN parts |-> PyInt(parts[i])]
         IN IF Len(parts) = 2 /\ ints[1].ok /\ ints[2].ok
            THEN [ok |-> TRUE, vals |-> IntRange(ints[1].val, ints[2].val)]
            ELSE [ok |-> FALSE, vals |-> <<>>]
    ELSE LET n == PyInt(segment)
         IN IF n.ok THEN [ok |-> TRUE, vals |-> <<n.val>>]
            ELSE [ok |-> FALSE, vals |-> <<>>]

\* the validation of lines 192-194 left out
ValidateNothing(selections, choices) ==
    [tag |-> "selections", sel |-> selections, arg |-> <<>>]

\* lines 192-194: the first selection that is not a choice raises
\* InvalidChoice(n); the message is str(n)
ValidateSelections(selections, choices) ==
    LET bad == {i \in DOMAIN selections : selections[i] \notin choices}
    IN IF bad = {}
       THEN [tag |-> "selections", sel |-> selections, arg |-> <<>>]
       ELSE LET i == CHOOSE k \in bad : \A j \in bad : k <= j
            IN [tag |-> "invalid", sel |-> <<>>, arg |-> IntStr(selections[i])]

\* lines 179-194: the segments in order, then the validation
RECURSIVE ParseSegments(_, _, _)
ParseSegments(segments, selections, choices) ==
    IF segments = <<>> THEN ValidateSelections(selections, choices)
    ELSE LET r == ParseSegment(Head(segments))
         IN IF r.ok
            THEN ParseSegments(Tail(segments), selections \o r.vals, choices)
            ELSE [tag |-> "invalid", sel |-> <<>>, arg |-> Head(segments)]

\* EOFError answered with [] in place of None
EndOfInputAsEmpty == [tag |-> "selections", sel |-> <<>>, arg |-> <<>>]

\* lines 197-200: EOFError at input() returns None
OnEndOfInput == [tag |-> "none", sel |-> <<>>, arg |-> <<>>]

\* the blank line answered with None in place of []
BlankLineAsNone == [tag |-> "none", sel |-> <<>>, arg |-> <<>>]

\* lines 177-178: the blank line returns []
OnBlankLine == [tag |-> "selections", sel |-> <<>>, arg |-> <<>>]

\* one pass of the while loop, lines 174-202, on one input event:
\* tag "selections" returns sel, tag "none" returns None, tag "invalid"
\* prints "Invalid choice: " + arg and loops
GetUserSelections(event, choices) ==
    IF event.eof THEN OnEndOfInput
    ELSE IF event.text = <<>> THEN OnBlankLine
    ELSE ParseSegments(Split(event.text, ","), <<>>, choices)

\* choices = range(1, len(entities) + 1), lines 228 and 256
Choices(entities) == 1..Len(entities)

\* entities[k] of Python for a list: negative k counts from the end
PyIndexOk(list, k) == 0 - Len(list) <= k /\ k < Len(list)

PyIndex(list, k) == IF k < 0 THEN list[Len(list) + k + 1] ELSE list[k + 1]

\* [entities[n - 1] for n in selections], lines 235 and 263
Selected(entities, selections) ==
    [i \in DOMAIN selections |-> PyIndex(entities, selections[i] - 1)]

SelectedOk(entities, selections) ==
    \A i \in DOMAIN selections : PyIndexOk(entities, selections[i] - 1)

(***************************************************************************)
(* manage_devices_across_emulations, lines 337-351.                        *)
(***************************************************************************)
\* lines 337-341: input(...).lower().split(",")
UserDevices(line) == Split(Lower(line), ",")

\* lines 342-343
DesiredState(line) == IF Lower(line) = <<"d">> THEN FALSE ELSE TRUE

\* line 350
FragmentMatches(sub_string, device) == Contains(device.name, Strip(sub_string))

\* lines 349-351: the device once for every fragment that matches
AppendsFor(device, user_devices) ==
    LET hits == SelectSeq(user_devices, LAMBDA f : FragmentMatches(f, device))
    IN [i \in DOMAIN hits |-> device]

\* lines 347-351
RECURSIVE DevicesToToggle(_, _)
DevicesToToggle(devices, user_devices) ==
    IF devices = <<>> THEN <<>>
    ELSE AppendsFor(Head(devices), user_devices)
             \o DevicesToToggle(Tail(devices), user_devices)

(***************************************************************************)
(* Inputs of the operator and of the environment.                          *)
(***************************************************************************)
\* characters typed at a selection prompt
PromptChars == {"1", "2", "3", "-", ",", "x"}

Lines == UNION {[1..n -> PromptChars] : n \in 0..MaxLen}

\* what input() gives: a line, or EOFError (Ctrl+D)
EndOfInput == [eof |-> TRUE, text |-> <<>>]

TypedLine(text) == [eof |-> FALSE, text |-> text]

PromptEvents == {TypedLine(l) : l \in Lines} \cup {EndOfInput}

\* lines typed at "Hours to run (1-24): "
HourLines ==
    { <<"0">>, <<"1">>, <<"5">>, <<"2", "4">>, <<"2", "5">>, <<"-", "1">>,
      <<"x">>, <<>> }

\* lines typed at "Enter Devices (or part of hostname): "
FragmentLines ==
    { <<"c", "s", "r">>,
      <<"C", "S", "R">>,
      <<"c", "s", "r", "1", ",", "c", "s", "r">>,
      <<"v", "m", "x", ",", " ", "c", "s", "r", "2">>,
      <<"n", "x", "o", "s">>,
      <<>> }

\* lines typed at "Enable or Disable [e/d]: "
EnableLines == {<<"e">>, <<"d">>, <<"D">>}

\* --token and TESUTO_API_TOKEN; "None" is absent, "" is given but empty
ArgTokens == {"None", "", "flag-token"}

EnvTokens == {"None", "", "env-token"}

\* datetime.utcnow(), in seconds on the UTC wall clock
Instants == {1000000}

\* the local zone's offset from UTC, in seconds
UtcOffsets == {0 - 3600, 0, 3600}

NoInput == [eof |-> FALSE, text |-> <<>>]

NoResult == [tag |-> "pending", sel |-> <<>>, arg |-> <<>>]

NoData == [action |-> "none"]

NoTimer == [enabled |-> FALSE, hours |-> 0, now |-> 0, utcoffset |-> 0]

VARIABLES
    pc,                 \* where the program is blocked
    exit_code,          \* the process's exit status, -1 while it runs
    args_token,         \* args.token
    env_token,          \* os.environ["TESUTO_API_TOKEN"]
    api_token,          \* tesuto.config api_token
    emulations,         \* select_emulations: the list fetched and displayed
    devices,            \* select_devices: the list fetched and displayed
    raw_input,          \* get_user_selections: the event input() gave
    result,             \* get_user_selections: what the pass came to
    attempts,           \* get_user_selections: rejected passes of this call
    managed_emulations, \* manage_emulations(emulations)
    managed_devices,    \* manage_devices(devices)
    batch,              \* toggle_emulations / toggle_devices: the targets
    pos,                \* the for loop's position in batch
    data,               \* the payload of the update calls
    prompt,             \* toggle_devices(prompt=...)
    user_devices,       \* manage_devices_across_emulations: the fragments
    desired_state,      \* manage_devices_across_emulations
    mpos,               \* manage_devices_across_emulations: position in emulations
    timer,              \* toggle_emulations(timer=...), the accepted duration
                        \* and the clock it was read at
    calls,              \* update calls issued since the last fetch or menu choice
    notices             \* notices printed since the last fetch or menu choice

config == <<args_token, env_token, api_token>>
outer == <<emulations, managed_emulations>>
inner == <<devices, managed_devices>>
asking == <<raw_input, result, attempts>>
toggling == <<batch, pos, data, prompt, timer>>
multi == <<user_devices, desired_state, mpos>>
log == <<calls, notices>>
vars == <<pc, exit_code, config, outer, inner, asking, toggling, multi, log>>

Init ==
    /\ pc = "main"
    /\ exit_code = -1
    /\ args_token \in ArgTokens
    /\ env_token \in EnvTokens
    /\ api_token = "None"
    /\ emulations = <<>>
    /\ devices = <<>>
    /\ raw_input = NoInput
    /\ result = NoResult
    /\ attempts = 0
    /\ managed_emulations = <<>>
    /\ managed_devices = <<>>
    /\ batch = <<>>
    /\ pos = 0
    /\ data = NoData
    /\ prompt = TRUE
    /\ user_devices = <<>>
    /\ desired_state = TRUE
    /\ mpos = 0
    /\ timer = NoTimer
    /\ calls = <<>>
    /\ notices = <<>>

(***************************************************************************)
(* main, lines 388-420.                                                    *)
(***************************************************************************)
\* lines 404-414: the token main configures, "None" when it exits instead;
\* line 404 tests the flag's truth value, line 406 the variable's presence
ConfiguredToken(flag, environ) ==
    IF flag # "None" /\ flag # "" THEN flag
    ELSE IF environ # "None" THEN environ
    ELSE "None"

Main ==
    /\ pc = "main"
    /\ LET token == ConfiguredToken(args_token, env_token)
       IN IF token # "None"
          THEN /\ api_token' = token
               /\ pc' = "emu_fetch"
               /\ exit_code' = exit_code
          ELSE /\ api_token' = api_token
               /\ pc' = "exited"
               /\ exit_code' = 1
    /\ UNCHANGED <<args_token, env_token, outer, inner, asking, toggling, multi, log>>

\* lines 418-420: Ctrl+C while the program waits for the operator
WaitingForOperator ==
    pc \in { "emu_prompt", "emu_menu", "hours_prompt", "emu_enter", "dev_prompt",
             "dev_menu", "dev_enter", "multi_input", "multi_enter" }

KeyboardInterrupt ==
    /\ WaitingForOperator
    /\ pc' = "exited"
    /\ exit_code' = 0
    /\ UNCHANGED <<config, outer, inner, asking, toggling, multi, log>>

(***************************************************************************)
(* The selection loops, lines 210-263.                                     *)
(***************************************************************************)
\* an empty selection asked for again, with no new fetch
SelectionLoopStepNoRefresh(r) ==
    IF r.tag = "invalid" THEN "reprompt"
    ELSE IF r.tag = "none" THEN "break"
    ELSE IF r.sel # <<>> THEN "manage"
    ELSE "reprompt"

\* lines 173 and 195-202 with 231-235 (259-263): what the loops do with the
\* outcome of one pass of get_user_selections
SelectionLoopStep(r) ==
    IF r.tag = "invalid" THEN "reprompt"
    ELSE IF r.tag = "none" THEN "break"
    ELSE IF r.sel # <<>> THEN "manage"
    ELSE "refresh"

\* one pass of get_user_selections over the displayed entities
SelectionPass(entities, return_pc) ==
    \E event \in PromptEvents :
        LET r == GetUserSelections(event, Choices(entities))
        IN /\ r.tag = "invalid" => attempts < MaxAttempts
           /\ raw_input' = event
           /\ result' = r
           /\ attempts' = attempts
           /\ pc' = return_pc

\* line 216, with the start of get_user_selections
GetEmulations ==
    /\ pc = "emu_fetch"
    /\ \E status_code \in ListStatuses, listing \in EmulationListings :
          IF DispatchRaises(status_code)
          THEN /\ pc' = "unhandled"
               /\ emulations' = emulations
          ELSE /\ pc' = "emu_prompt"
               /\ emulations' = SortByName(listing)
    /\ attempts' = 0
    /\ calls' = <<>>
    /\ notices' = <<>>
    /\ UNCHANGED <<exit_code, config, managed_emulations, inner, raw_input, result,
                   toggling, multi>>

SelectEmulationsPrompt ==
    /\ pc = "emu_prompt"
    /\ SelectionPass(emulations, "emu_ret")
    /\ UNCHANGED <<exit_code, config, outer, inner, toggling, multi, log>>

\* lines 231-235
SelectEmulationsReturn ==
    /\ pc = "emu_ret"
    /\ raw_input' = NoInput
    /\ result' = NoResult
    /\ LET step == SelectionLoopStep(result)
       IN CASE step = "reprompt" ->
                  /\ pc' = "emu_prompt"
                  /\ attempts' = attempts + 1
                  /\ UNCHANGED <<exit_code, managed_emulations>>
            [] step = "break" ->
                  /\ pc' = "exited"
                  /\ exit_code' = 0
                  /\ UNCHANGED <<attempts, managed_emulations>>
            [] step = "refresh" ->
                  /\ pc' = "emu_fetch"
                  /\ UNCHANGED <<exit_code, attempts, managed_emulations>>
            [] OTHER ->
                  /\ IF SelectedOk(emulations, result.sel)
                     THEN /\ pc' = "emu_menu"
                          /\ managed_emulations' = Selected(emulations, result.sel)
                     ELSE /\ pc' = "unhandled"
                          /\ managed_emulations' = managed_emulations
                  /\ UNCHANGED <<exit_code, attempts>>
    /\ UNCHANGED <<config, emulations, inner, toggling, multi, log>>

\* line 244, with the start of get_user_selections; the emulation is the one
\* "Show Devices" was offered for, emulations[0].id of line 308
GetDevices ==
    /\ pc = "dev_fetch"
    /\ \E status_code \in ListStatuses,
          listing \in DeviceListings(managed_emulations[1].id) :
          IF DispatchRaises(status_code)
          THEN /\ pc' = "unhandled"
               /\ devices' = devices
          ELSE /\ pc' = "dev_prompt"
               /\ devices' = listing
    /\ attempts' = 0
    /\ calls' = <<>>
    /\ notices' = <<>>
    /\ UNCHANGED <<exit_code, config, outer, managed_devices, raw_input, result,
                   toggling, multi>>

SelectDevicesPrompt ==
    /\ pc = "dev_prompt"
    /\ SelectionPass(devices, "dev_ret")
    /\ UNCHANGED <<exit_code, config, outer, inner, toggling, multi, log>>

\* lines 259-263; on break the "Show Devices" item returns to its menu
SelectDevicesReturn ==
    /\ pc = "dev_ret"
    /\ raw_input' = NoInput
    /\ result' = NoResult
    /\ LET step == SelectionLoopStep(result)
       IN CASE step = "reprompt" ->
                  /\ pc' = "dev_prompt"
                  /\ attempts' = attempts + 1
                  /\ UNCHANGED <<devices, managed_devices>>
            [] step = "break" ->
                  /\ pc' = "emu_menu"
                  /\ devices' = <<>>
                  /\ UNCHANGED <<attempts, managed_devices>>
            [] step = "refresh" ->
                  /\ pc' = "dev_fetch"
                  /\ UNCHANGED <<attempts, devices, managed_devices>>
            [] OTHER ->
                  /\ IF SelectedOk(devices, result.sel)
                     THEN /\ pc' = "dev_menu"
                          /\ managed_devices' = Selected(devices, result.sel)
                     ELSE /\ pc' = "unhandled"
                          /\ managed_devices' = managed_devices
                  /\ UNCHANGED <<attempts, devices>>
    /\ UNCHANGED <<exit_code, config, outer, toggling, multi, log>>

(***************************************************************************)
(* API.toggle_emulations, lines 61-101, behind the items of the            *)
(* "Manage Emulations" menu, lines 276-321.                                *)
(***************************************************************************)
\* the duration asked for on every start, whatever the timer option
AsksForHoursOnStart(status, with_timer) == status = "start"

\* line 72
AsksForHours(status, with_timer) == status = "start" /\ with_timer

\* line 75: hours in range(1, 25)
HoursAccepted(hours) == hours \in 1..24

\* lines 76-77: utcnow() + timedelta(hours) is a naive datetime, and
\* timestamp() reads a naive datetime as local time
EndTime(now, hours, utcoffset) == (now + 3600 * hours) - utcoffset

\* lines 88-99: what the loop does after one response that came back
AfterResponse(status_code) == IF status_code = 200 THEN "next" ELSE "break"

\* a FunctionItem bound to api.toggle_emulations is chosen: lines 68-72
ChooseToggleEmulations(status, with_timer) ==
    /\ pc = "emu_menu"
    /\ data' = [action |-> status]
    /\ batch' = managed_emulations
    /\ pos' = 1
    /\ timer' = [NoTimer EXCEPT !.enabled = with_timer]
    /\ attempts' = 0
    /\ calls' = <<>>
    /\ notices' = <<>>
    /\ pc' = IF AsksForHours(status, with_timer) THEN "hours_prompt"
             ELSE IF managed_emulations = <<>> THEN "emu_enter"
             ELSE "emu_toggle"
    /\ UNCHANGED <<exit_code, config, outer, inner, raw_input, result, prompt, multi>>

MenuStart == ChooseToggleEmulations("start", FALSE)

MenuStartWithTimer == ChooseToggleEmulations("start", TRUE)

MenuStop == ChooseToggleEmulations("suspend", FALSE)

MenuDelete == ChooseToggleEmulations("stop", FALSE)

\* lines 73-81: one pass of the duration prompt
HoursPrompt ==
    /\ pc = "hours_prompt"
    /\ \E event \in {TypedLine(l) : l \in HourLines} \cup {EndOfInput},
          now \in Instants, utcoffset \in UtcOffsets :
          LET hours == PyInt(event.text)
          IN /\ raw_input' = event
             /\ IF event.eof \/ ~hours.ok
                THEN \* EOFError from input(), ValueError from int()
                     /\ pc' = "unhandled"
                     /\ UNCHANGED <<data, timer, attempts>>
                ELSE IF HoursAccepted(hours.val)
                THEN /\ data' = [action |-> data.action,
                                 end_at |-> EndTime(now, hours.val, utcoffset)]
                     /\ timer' = [enabled |-> timer.enabled, hours |-> hours.val,
                                  now |-> now, utcoffset |-> utcoffset]
                     /\ pc' = IF batch = <<>> THEN "emu_enter" ELSE "emu_toggle"
                     /\ attempts' = attempts
                ELSE /\ attempts < MaxAttempts
                     /\ attempts' = attempts + 1
                     /\ pc' = "hours_prompt"
                     /\ UNCHANGED <<data, timer>>
    /\ UNCHANGED <<exit_code, config, outer, inner, result, batch, pos, prompt,
                   multi, log>>

\* lines 83-99: one pass of the for loop
ToggleEmulation ==
    /\ pc = "emu_toggle"
    /\ \E status_code \in UpdateStatuses :
          LET emulation == batch[pos]
          IN /\ calls' = Append(calls, [id |-> emulation.id, data |-> data,
                                        status_code |-> status_code])
             /\ IF DispatchRaises(status_code)
                THEN /\ pc' = "unhandled"
                     /\ UNCHANGED <<notices, pos>>
                ELSE /\ notices' = Append(notices,
                                          [ok |-> status_code = 200,
                                           name |-> emulation.name])
                     /\ IF AfterResponse(status_code) = "next" /\ pos < Len(batch)
                        THEN /\ pos' = pos + 1
                             /\ pc' = "emu_toggle"
                        ELSE /\ pos' = pos
                             /\ pc' = "emu_enter"
    /\ UNCHANGED <<exit_code, config, outer, inner, asking, batch, data, prompt,
                   timer, multi>>

\* line 101, then the item's should_exit leaves the menu and
\* manage_emulations returns into the loop of select_emulations
ToggleEmulationsEnter ==
    /\ pc = "emu_enter"
    /\ \E event \in {TypedLine(<<>>), EndOfInput} :
          IF event.eof
          THEN /\ pc' = "unhandled"
               /\ UNCHANGED <<managed_emulations, toggling, raw_input>>
          ELSE /\ pc' = "emu_fetch"
               /\ managed_emulations' = <<>>
               /\ batch' = <<>>
               /\ pos' = 0
               /\ data' = NoData
               /\ timer' = NoTimer
               /\ prompt' = prompt
               /\ raw_input' = NoInput
    /\ UNCHANGED <<exit_code, config, emulations, inner, result, attempts, multi, log>>

\* the menu's own exit item: manage_emulations returns
MenuExit ==
    /\ pc = "emu_menu"
    /\ pc' = "emu_fetch"
    /\ managed_emulations' = <<>>
    /\ UNCHANGED <<exit_code, config, emulations, inner, asking, toggling, multi, log>>

\* the fifth item chosen by the number of distinct emulations
FifthItemDistinct(managed) ==
    IF Cardinality(Range(managed)) = 1 THEN "Show Devices"
    ELSE "Multi-Emulation Enable/Disable Devices"

\* lines 306-319: the fifth item of the menu
FifthItem(managed) ==
    IF Len(managed) = 1 THEN "Show Devices"
    ELSE "Multi-Emulation Enable/Disable Devices"

MenuShowDevices ==
    /\ pc = "emu_menu"
    /\ FifthItem(managed_emulations) = "Show Devices"
    /\ pc' = "dev_fetch"
    /\ UNCHANGED <<exit_code, config, outer, inner, asking, toggling, multi, log>>

(***************************************************************************)
(* API.toggle_devices, lines 123-147, behind manage_devices, lines         *)
(* 357-380, and behind manage_devices_across_emulations, lines 324-354.    *)
(***************************************************************************)
\* where toggle_devices goes when its for loop is over, lines 146-147, and,
\* without the prompt, where the loop of line 345 goes next
AfterToggleDevices(with_prompt, at) ==
    IF with_prompt THEN [pc |-> "dev_enter", mpos |-> at]
    ELSE IF at < Len(managed_emulations)
    THEN [pc |-> "multi_fetch", mpos |-> at + 1]
    ELSE [pc |-> "multi_enter", mpos |-> at]

\* a FunctionItem bound to api.toggle_devices is chosen
ChooseToggleDevices(is_enabled) ==
    /\ pc = "dev_menu"
    /\ data' = [is_enabled |-> is_enabled]
    /\ batch' = managed_devices
    /\ pos' = 1
    /\ prompt' = TRUE
    /\ calls' = <<>>
    /\ notices' = <<>>
    /\ pc' = IF managed_devices = <<>> THEN "dev_enter" ELSE "dev_toggle"
    /\ UNCHANGED <<exit_code, config, outer, inner, asking, timer, multi>>

MenuEnable == ChooseToggleDevices(TRUE)

MenuDisable == ChooseToggleDevices(FALSE)

\* the menu's own exit item: manage_devices returns
DeviceMenuExit ==
    /\ pc = "dev_menu"
    /\ pc' = "dev_fetch"
    /\ managed_devices' = <<>>
    /\ UNCHANGED <<exit_code, config, outer, devices, asking, toggling, multi, log>>

\* lines 129-145: one pass of the for loop
ToggleDevice ==
    /\ pc = "dev_toggle"
    /\ \E status_code \in UpdateStatuses :
          LET device == batch[pos]
              after == AfterToggleDevices(prompt, mpos)
          IN /\ calls' = Append(calls, [id |-> device.id, data |-> data,
                                        status_code |-> status_code])
             /\ IF DispatchRaises(status_code)
                THEN /\ pc' = "unhandled"
                     /\ UNCHANGED <<notices, pos, mpos>>
                ELSE /\ notices' = Append(notices,
                                          [ok |-> status_code = 200,
                                           name |-> device.name])
                     /\ IF AfterResponse(status_code) = "next" /\ pos < Len(batch)
                        THEN /\ pos' = pos + 1
                             /\ pc' = "dev_toggle"
                             /\ mpos' = mpos
                        ELSE /\ pos' = pos
                             /\ pc' = after.pc
                             /\ mpos' = after.mpos
    /\ UNCHANGED <<exit_code, config, outer, inner, asking, batch, data, prompt,
                   timer, user_devices, desired_state>>

\* line 147, then the item's should_exit leaves the menu and manage_devices
\* returns into the loop of select_devices
ToggleDevicesEnter ==
    /\ pc = "dev_enter"
    /\ \E event \in {TypedLine(<<>>), EndOfInput} :
          IF event.eof
          THEN /\ pc' = "unhandled"
               /\ UNCHANGED <<managed_devices, toggling>>
          ELSE /\ pc' = "dev_fetch"
               /\ managed_devices' = <<>>
               /\ batch' = <<>>
               /\ pos' = 0
               /\ data' = NoData
               /\ UNCHANGED <<prompt, timer>>
    /\ UNCHANGED <<exit_code, config, outer, devices, asking, multi, log>>

\* the fifth item when several emulations are managed: lines 337-343
MenuMultiToggle ==
    /\ pc = "emu_menu"
    /\ FifthItem(managed_emulations) # "Show Devices"
    /\ pc' = "multi_input"
    /\ UNCHANGED <<exit_code, config, outer, inner, asking, toggling, multi, log>>

MultiInput ==
    /\ pc = "multi_input"
    /\ \/ \E names \in FragmentLines, to_enable \in EnableLines :
             /\ user_devices' = UserDevices(names)
             /\ desired_state' = DesiredState(to_enable)
             /\ mpos' = 1
             /\ pc' = "multi_fetch"
       \/ \* EOFError at either input()
          /\ pc' = "unhandled"
          /\ UNCHANGED multi
    /\ calls' = <<>>
    /\ notices' = <<>>
    /\ UNCHANGED <<exit_code, config, outer, inner, asking, toggling>>

\* lines 346-353, up to the first update call of toggle_devices
MultiGetDevices ==
    /\ pc = "multi_fetch"
    /\ \E status_code \in ListStatuses,
          listing \in DeviceListings(managed_emulations[mpos].id) :
          IF DispatchRaises(status_code)
          THEN /\ pc' = "unhandled"
               /\ UNCHANGED <<batch, pos, data, prompt, mpos>>
          ELSE LET devices_to_toggle == DevicesToToggle(listing, user_devices)
                   after == AfterToggleDevices(FALSE, mpos)
               IN /\ batch' = devices_to_toggle
                  /\ pos' = 1
                  /\ data' = [is_enabled |-> desired_state]
                  /\ prompt' = FALSE
                  /\ IF devices_to_toggle = <<>>
                     THEN pc' = after.pc /\ mpos' = after.mpos
                     ELSE pc' = "dev_toggle" /\ mpos' = mpos
    /\ UNCHANGED <<exit_code, config, outer, inner, asking, timer, user_devices,
                   desired_state, log>>

\* line 354; the item has no should_exit, so its menu is shown again
MultiEnter ==
    /\ pc = "multi_enter"
    /\ \E event \in {TypedLine(<<>>), EndOfInput} :
          IF event.eof
          THEN /\ pc' = "unhandled"
               /\ UNCHANGED <<toggling, multi>>
          ELSE /\ pc' = "emu_menu"
               /\ batch' = <<>>
               /\ pos' = 0
               /\ data' = NoData
               /\ prompt' = TRUE
               /\ timer' = timer
               /\ user_devices' = <<>>
               /\ desired_state' = TRUE
               /\ mpos' = 0
    /\ UNCHANGED <<exit_code, config, outer, inner, asking, log>>

Next ==
    \/ Main
    \/ KeyboardInterrupt
    \/ GetEmulations
    \/ SelectEmulationsPrompt
    \/ SelectEmulationsReturn
    \/ MenuStart
    \/ MenuStartWithTimer
    \/ MenuStop
    \/ MenuDelete
    \/ MenuShowDevices
    \/ MenuMultiToggle
    \/ MenuExit
    \/ HoursPrompt
    \/ ToggleEmulation
    \/ ToggleEmulationsEnter
    \/ GetDevices
    \/ SelectDevicesPrompt
    \/ SelectDevicesReturn
    \/ MenuEnable
    \/ MenuDisable
    \/ DeviceMenuExit
    \/ ToggleDevice
    \/ ToggleDevicesEnter
    \/ MultiInput
    \/ MultiGetDevices
    \/ MultiEnter

Spec == Init /\ [][Next]_vars

(***************************************************************************)
(* Properties.  The reading of a typed line used below is written from     *)
(* the statement of the properties, not from the parser.                   *)
(***************************************************************************)
AtSelectionReturn == pc \in {"emu_ret", "dev_ret"}

\* the list the prompt was shown for
Displayed == IF pc = "emu_ret" THEN emulations ELSE devices

\* a line was typed and it is not blank
TypedNonBlank == ~raw_input.eof /\ raw_input.text # <<>>

\* the k-th of the cuts of a line: position 0, each comma, and the end
LineCuts(line) ==
    {0, Len(line) + 1} \cup {i \in DOMAIN line : line[i] = ","}

LineCut(line, k) ==
    CHOOSE c \in LineCuts(line) :
        Cardinality({d \in LineCuts(line) : d < c}) = k - 1

\* the comma-separated segments of a line, in order
LineSegments(line) ==
    [k \in 1..(Cardinality(LineCuts(line)) - 1) |->
        SubSeq(line, LineCut(line, k) + 1, LineCut(line, k + 1) - 1)]

IsNumberText(s) == Len(s) > 0 /\ \A i \in DOMAIN s : IsDigit(s[i])

\* a-b with both sides numbers
IsRangeText(s) ==
    \E i \in DOMAIN s :
        /\ s[i] = "-"
        /\ IsNumberText(SubSeq(s, 1, i - 1))
        /\ IsNumberText(SubSeq(s, i + 1, Len(s)))

RangeLow(s) ==
    DigitsValue(SubSeq(s, 1, (CHOOSE i \in DOMAIN s : s[i] = "-") - 1))

RangeHigh(s) ==
    DigitsValue(SubSeq(s, (CHOOSE i \in DOMAIN s : s[i] = "-") + 1, Len(s)))

\* a single integer, or a range a-b with a <= b
WellFormedSegment(s) ==
    IsNumberText(s) \/ (IsRangeText(s) /\ RangeLow(s) <= RangeHigh(s))

\* [n] for a single integer, [a, a+1, ..., b] for a range
SegmentExpansion(s) ==
    IF IsNumberText(s) THEN <<DigitsValue(s)>>
    ELSE [k \in 1..(RangeHigh(s) - RangeLow(s) + 1) |-> RangeLow(s) + k - 1]

RECURSIVE Concatenation(_)
Concatenation(lists) ==
    IF lists = <<>> THEN <<>> ELSE Head(lists) \o Concatenation(Tail(lists))

LineWellFormed(line) ==
    \A k \in DOMAIN LineSegments(line) : WellFormedSegment(LineSegments(line)[k])

LineExpansion(line) ==
    Concatenation([k \in DOMAIN LineSegments(line) |->
                      SegmentExpansion(LineSegments(line)[k])])

\* a batch dispatched with the closing prompt: toggle_emulations, or
\* toggle_devices from the device menu
InSingleBatch ==
    /\ pc \in {"emu_toggle", "emu_enter", "dev_toggle", "dev_enter", "unhandled"}
    /\ prompt
    /\ batch # <<>>

FirstFailure(k) ==
    /\ k \in DOMAIN calls
    /\ calls[k].status_code # 200
    /\ \A i \in 1..(k - 1) : calls[i].status_code = 200

\* C1: in a batch whose k-th update call is the first to fail, targets
\* 1..k-1 each got exactly one update call and a success notice, target k got
\* exactly one update call and a failure notice, and no later target got a call.
C1_FailFastBatch ==
    InSingleBatch =>
        \A k \in DOMAIN calls :
            FirstFailure(k) =>
                /\ Len(calls) = k
                /\ \A i \in 1..k : calls[i].id = batch[i].id
                /\ Len(notices) = k
                /\ \A i \in 1..(k - 1) :
                      notices[i] = [ok |-> TRUE, name |-> batch[i].name]
                /\ notices[k] = [ok |-> FALSE, name |-> batch[k].name]

\* C2: every update call of a batch that comes back with a status other than
\* 200 (401, 404 or any other) prints the failure notice of its target, ends
\* the batch and brings the dispatcher to its "Press [enter] to continue" step.
C2_FailureSurfaced ==
    [][ ( /\ pc \in {"emu_toggle", "dev_toggle"}
          /\ prompt
          /\ Len(calls') = Len(calls) + 1
          /\ calls'[Len(calls')].status_code # 200 )
        => ( /\ pc' \in {"emu_enter", "dev_enter"}
             /\ notices' = Append(notices, [ok |-> FALSE, name |-> batch[pos].name]) )
      ]_vars

\* C3: a typed line with a segment that is neither a single integer nor a
\* range a-b with a <= b is rejected with a message naming such a segment,
\* and nothing is returned for it.
C3_BadSegmentRejected ==
    (AtSelectionReturn /\ TypedNonBlank) =>
        LET segments == LineSegments(raw_input.text)
            bad == {k \in DOMAIN segments : ~WellFormedSegment(segments[k])}
        IN bad # {} =>
              /\ result.tag = "invalid"
              /\ \E k \in bad : result.arg = segments[k]

\* C4: a returned selection holds only members of choices; a well-formed line
\* with an integer outside choices is rejected with a message naming such an
\* integer; and the entities handed to a management menu are elements of the
\* list that was displayed.
C4_OnlyChoices ==
    /\ (AtSelectionReturn /\ result.tag = "selections") =>
           \A i \in DOMAIN result.sel : result.sel[i] \in 1..Len(Displayed)
    /\ (AtSelectionReturn /\ TypedNonBlank /\ LineWellFormed(raw_input.text)) =>
           LET expansion == LineExpansion(raw_input.text)
               outside == {expansion[i] : i \in DOMAIN expansion}
                              \ (1..Len(Displayed))
           IN outside # {} =>
                 /\ result.tag = "invalid"
                 /\ \E n \in outside : result.arg = IntStr(n)
    /\ pc = "emu_menu" =>
           /\ managed_emulations # <<>>
           /\ \A i \in DOMAIN managed_emulations :
                 managed_emulations[i] \in Range(emulations)
    /\ pc = "dev_menu" =>
           /\ managed_devices # <<>>
           /\ \A i \in DOMAIN managed_devices : managed_devices[i] \in Range(devices)

\* C4 witness: with two entities displayed, the line "3" was rejected naming 3.
C4_Witness ==
    /\ pc = "emu_ret"
    /\ Len(emulations) = 2
    /\ raw_input = TypedLine(<<"3">>)
    /\ result.tag = "invalid"
    /\ result.arg = <<"3">>

\* C5: an accepted line (every segment well-formed, every integer a choice)
\* returns the concatenation of its segments' expansions in segment order,
\* neither sorted nor deduplicated; the update calls of a batch follow the
\* batch position by position, one per occurrence.
C5_Concatenation ==
    /\ (AtSelectionReturn /\ TypedNonBlank /\ LineWellFormed(raw_input.text)) =>
           LET expansion == LineExpansion(raw_input.text)
           IN (\A i \in DOMAIN expansion : expansion[i] \in 1..Len(Displayed)) =>
                 /\ result.tag = "selections"
                 /\ result.sel = expansion
    /\ InSingleBatch =>
           /\ Len(calls) <= Len(batch)
           /\ \A i \in DOMAIN calls : calls[i].id = batch[i].id

\* C5 witness: the line "1,1" was accepted as [1, 1].
C5_Witness ==
    /\ AtSelectionReturn
    /\ raw_input = TypedLine(<<"1", ",", "1">>)
    /\ result.tag = "selections"
    /\ result.sel = <<1, 1>>

\* toggle_devices is running for one emulation of a multi-emulation toggle
InMultiBatch == pc = "dev_toggle" /\ ~prompt

\* the devices of the emulation the multi-emulation toggle is at
MultiDevices == Range(DevicesOf(managed_emulations[mpos].id))

Occurrences(list, x) == Cardinality({i \in DOMAIN list : list[i] = x})

\* C6: for each emulation of a multi-emulation toggle, the list handed to
\* toggle_devices holds every device whose name contains an entered fragment
\* exactly once, and no other device.
C6_MatchedOnce ==
    InMultiBatch =>
        \A d \in MultiDevices :
            Occurrences(batch, d) =
                IF \E k \in DOMAIN user_devices : FragmentMatches(user_devices[k], d)
                THEN 1 ELSE 0

\* the hours a typed line stands for, when it is a whole number in [1,24]
InHoursRange(line) == IsNumberText(line) /\ DigitsValue(line) \in 1..24

\* C7: at the duration prompt a typed line that is not a whole number in
\* [1,24] is rejected and the prompt is shown again, with no crash and no
\* update call; an accepted line h sets the expiry to the instant read plus
\* exactly h hours, in epoch seconds.
C7_HoursPrompt ==
    [][ (pc = "hours_prompt" /\ pc' # "exited" /\ ~raw_input'.eof)
        => /\ calls' = <<>>
           /\ IF InHoursRange(raw_input'.text)
              THEN /\ pc' = "emu_toggle"
                   /\ data'.end_at = timer'.now + 3600 * DigitsValue(raw_input'.text)
              ELSE /\ pc' = "hours_prompt"
                   /\ data' = data
      ]_vars

\* C8: a blank line at a selection prompt gives the empty selection, and the
\* loop goes back to fetching its list, with no management action and no
\* update call.
C8_BlankRefreshes ==
    [][ (AtSelectionReturn /\ ~raw_input.eof /\ raw_input.text = <<>>)
        => /\ result.tag = "selections"
           /\ result.sel = <<>>
           /\ pc' = (IF pc = "emu_ret" THEN "emu_fetch" ELSE "dev_fetch")
           /\ calls' = calls
           /\ notices' = notices
           /\ managed_emulations' = managed_emulations
           /\ managed_devices' = managed_devices
           /\ batch' = batch
      ]_vars

\* C8 witness: a blank line was read at the emulation prompt and gave [].
C8_Witness ==
    /\ pc = "emu_ret"
    /\ raw_input = TypedLine(<<>>)
    /\ result.tag = "selections"
    /\ result.sel = <<>>
    /\ emulations # <<>>

\* C9: end-of-input at a selection prompt, on any attempt, gives the
\* cancellation sentinel and ends the loop that asked, with no fetch and no
\* update call: the emulation loop ends the program with status 0, the device
\* loop returns to the emulation menu it was entered from.
C9_EndOfInputCancels ==
    [][ (AtSelectionReturn /\ raw_input.eof)
        => /\ result.tag = "none"
           /\ calls' = calls
           /\ IF pc = "emu_ret"
              THEN /\ pc' = "exited"
                   /\ exit_code' = 0
              ELSE /\ pc' = "emu_menu"
                   /\ exit_code' = exit_code
                   /\ managed_emulations' = managed_emulations
      ]_vars

\* C9 witness: end-of-input at the device prompt after a rejected attempt.
C9_Witness ==
    /\ pc = "dev_ret"
    /\ raw_input.eof
    /\ attempts > 0
    /\ result.tag = "none"

\* C10: a device whose name contains an entered fragment when both are
\* lowered is among the devices handed to toggle_devices.
C10_CaseInsensitiveMatch ==
    InMultiBatch =>
        \A d \in MultiDevices :
            (\E k \in DOMAIN user_devices :
                Contains(Lower(d.name), Lower(Strip(user_devices[k]))))
            => Occurrences(batch, d) > 0

\* toggle_emulations is running, or the program ended inside it
InEmulationBatch == "action" \in DOMAIN data /\ data.action # "none"

HasExpiry(payload) == "end_at" \in DOMAIN payload

\* C11: the payload of an emulation update call carries an expiry exactly
\* when the action is start with the timer option; the duration is asked for
\* before the first update call, and every call of the batch carries the same
\* expiry; a batch whose calls all succeed issues one call per selected
\* emulation, in order, with the action keyword.
C11_ExpiryInPayload ==
    InEmulationBatch =>
        /\ data.action \in {"start", "suspend", "stop"}
        /\ pc = "hours_prompt" =>
               calls = <<>> /\ timer.enabled /\ data.action = "start"
        /\ \A i \in DOMAIN calls :
               /\ calls[i].data.action = data.action
               /\ HasExpiry(calls[i].data) <=> (data.action = "start" /\ timer.enabled)
               /\ HasExpiry(calls[i].data) =>
                      /\ timer.hours \in 1..24
                      /\ calls[i].data.end_at = calls[1].data.end_at
        /\ (pc = "emu_enter" /\ \A i \in DOMAIN calls : calls[i].status_code = 200) =>
               /\ Len(calls) = Len(batch)
               /\ \A i \in DOMAIN calls : calls[i].id = batch[i].id

\* C11 witness: a start with timer sent the same expiry to two emulations.
C11_Witness ==
    /\ pc = "emu_enter"
    /\ timer.enabled
    /\ Len(batch) = 2
    /\ Len(calls) = 2
    /\ \A i \in DOMAIN calls : calls[i].status_code = 200 /\ HasExpiry(calls[i].data)
    /\ calls[1].data.end_at = calls[2].data.end_at

\* the entities at the selected 1-based positions of a displayed list
AtPositions(list, positions) == [i \in DOMAIN positions |-> list[positions[i]]]

\* C12: a selection prompt is entered only from the fetch of its own loop
\* iteration (or again after a rejected line of the same call); the list is
\* not changed from its display to the selection made from it; the entities handed to the
\* management menu are those at the selected positions of that list; and
\* when the management action is over the loop is at its fetch again.
C12_FreshFetch ==
    [][ /\ (pc' = "emu_prompt" /\ pc # "emu_prompt") =>
               \/ pc = "emu_fetch"
               \/ pc = "emu_ret" /\ result.tag = "invalid" /\ emulations' = emulations
        /\ (pc' = "dev_prompt" /\ pc # "dev_prompt") =>
               \/ pc = "dev_fetch"
               \/ pc = "dev_ret" /\ result.tag = "invalid" /\ devices' = devices
        /\ (pc \in {"emu_prompt", "emu_ret"}
                /\ pc' \in {"emu_prompt", "emu_ret", "emu_menu"}) =>
               emulations' = emulations
        /\ (pc \in {"dev_prompt", "dev_ret"}
                /\ pc' \in {"dev_prompt", "dev_ret", "dev_menu"}) =>
               devices' = devices
        /\ (pc = "emu_ret" /\ pc' = "emu_menu") =>
               managed_emulations' = AtPositions(emulations, result.sel)
        /\ (pc = "dev_ret" /\ pc' = "dev_menu") =>
               managed_devices' = AtPositions(devices, result.sel)
        /\ (pc \in {"emu_menu", "emu_enter"}
                /\ pc' \in {"emu_fetch", "emu_prompt", "emu_ret"}) =>
               pc' = "emu_fetch"
        /\ (pc \in {"dev_menu", "dev_enter"}
                /\ pc' \in {"dev_fetch", "dev_prompt", "dev_ret"}) =>
               pc' = "dev_fetch"
      ]_vars

\* C12 witness: the devices at positions 2 and 1 of the displayed list were
\* handed to the device menu, in that order.
C12_Witness ==
    /\ pc = "dev_menu"
    /\ Len(devices) >= 2
    /\ managed_devices = <<devices[2], devices[1]>>

\* C13: the emulation list held by select_emulations is in ascending order
\* of name whenever it is displayed or selected from, whatever the order of
\* the listing the service returned, so that position i is the i-th
\* emulation in name order.
C13_SortedByName ==
    \A i, j \in DOMAIN emulations :
        i < j => ~StrLess(emulations[j].name, emulations[i].name)

\* C13 witness: both "a" and "b" were listed and selecting 1 manages "a".
C13_Witness ==
    /\ pc = "emu_menu"
    /\ Len(emulations) = 2
    /\ emulations[1].name = <<"a">>
    /\ emulations[2].name = <<"b">>
    /\ managed_emulations = <<emulations[1]>>

\* a token is supplied when the flag or the variable is present and not empty
Supplies(token) == token # "None" /\ token # ""

\* C14: once main has configured the token: if neither the flag nor the
\* environment variable supplies a token the program has exited with status
\* 1 with no list fetched and no remote call made; if the flag is given it is
\* the token in use; and the environment variable is the token in use only
\* when the flag is absent.
C14_StartupToken ==
    pc # "main" =>
        /\ (~Supplies(args_token) /\ ~Supplies(env_token)) =>
               /\ pc = "exited"
               /\ exit_code = 1
               /\ api_token = "None"
               /\ emulations = <<>>
               /\ calls = <<>>
        /\ args_token # "None" => api_token = args_token
        /\ (api_token # "None" /\ api_token # args_token) =>
               args_token = "None" /\ api_token = env_token

\* C15: in manage_devices_across_emulations, when an update call for a
\* device of the emulation at position mpos is answered with a status other
\* than 200, no further device of that emulation is called for and the
\* operation goes on: to the device fetch of the next selected emulation if
\* there is one, and to the single "Press [Enter]" prompt after the last.
C15_HaltScopedToEmulation ==
    [][ ( /\ InMultiBatch
          /\ Len(calls') = Len(calls) + 1
          /\ calls'[Len(calls')].status_code # 200 ) =>
            IF mpos < Len(managed_emulations)
            THEN pc' = "multi_fetch" /\ mpos' = mpos + 1
            ELSE pc' = "multi_enter" /\ mpos' = mpos
      ]_vars

\* the program is inside the inner device selection loop
InDeviceLoop ==
    \/ pc \in {"dev_fetch", "dev_prompt", "dev_ret", "dev_menu", "dev_enter"}
    \/ pc = "dev_toggle" /\ prompt

\* the program is inside manage_devices_across_emulations
InMultiToggle ==
    \/ pc \in {"multi_input", "multi_fetch", "multi_enter"}
    \/ pc = "dev_toggle" /\ ~prompt

\* C16: at the emulation menu "Show Devices" can be chosen exactly when the
\* managed list has one entry and the multi-emulation item exactly when it
\* has more than one, counting occurrences; the inner device loop is only
\* ever entered with one managed entry and the multi-emulation operation
\* only with more than one.
C16_FifthMenuItem ==
    /\ pc = "emu_menu" =>
           /\ Len(managed_emulations) >= 1
           /\ (ENABLED MenuShowDevices) <=> Len(managed_emulations) = 1
           /\ (ENABLED MenuMultiToggle) <=> Len(managed_emulations) > 1
    /\ InDeviceLoop => Len(managed_emulations) = 1
    /\ InMultiToggle => Len(managed_emulations) > 1

\* C16 witness: the same emulation was selected twice and the multi-emulation
\* item was chosen.
C16_Witness ==
    /\ pc = "multi_input"
    /\ Len(managed_emulations) = 2
    /\ managed_emulations[1] = managed_emulations[2]

====
